---- MODULE Spec2Model ----
(***************************************************************************)
(* Robant: the state-model analyser (states.py), the project validator     *)
(* (projects.py) and the two commands that drive them (console.py).        *)
(*                                                                         *)
(* SpecModel    the `model` command: runModel on one STATES.yml            *)
(* Spec         the `validate` command: runValidate over a project forest  *)
(* SpecChronology  checkProjectChronology, project after project, on the   *)
(*              interval tree of one run                                   *)
(* SpecSatisfaction  checkProjectSatisfaction on one project               *)
(* SpecValidity checkModelValidity on one raw state model                  *)
(* SpecState    checkProjectState on one project                           *)
(* SpecWalk     yieldLabeledProjectFiles (hierarchy.py) on one folder tree *)
(* SpecCompile  compileConstraints called repeatedly on one state model    *)
(* SpecSearch   yieldClassifications, resumed yield after yield, on one     *)
(*              valid state model                                          *)
(* SpecClauses  compileConstraints on one state model as its types admit   *)
(* SpecDepth    min_depth and satisfies on one valid state model and bag   *)
(***************************************************************************)
EXTENDS Integers, Sequences, FiniteSets, TLC

VARIABLES
    \* ---- runModel / checkModelSatisfaction / yieldClassifications
    model,        \* the StateModel read from STATES.yml
    constraints,  \* compileConstraints(model), a sequence of <<state, constraint>>
    state_queue,  \* checkModelSatisfaction: the (min depth, state) pairs still to find
    bag_fifo,     \* yieldClassifications: the FIFO queue of bags
    bag_index,    \* yieldClassifications: bag -> project state, for the queued bags
    gen,          \* the generator: "unstarted", "suspended" (at its yield), "closed"
    yielded,      \* every (state, bag) pair the generator has yielded, in order
    derived,      \* every bag pushBag has classified
    mpc,          \* runModel: "load", "search", "done"
    ret,          \* checkModelSatisfaction: "running", returned "True" or "None", or the error raised
    printed,      \* what runModel printed: "OK", "Failed validation" or "Traceback"
    errbag,       \* the bag pushBag raised on, when it did
    \* ---- runValidate and the four project checks
    nprojects,    \* the projects yieldLabeledProjectFiles yields for the forest
    checked,      \* the projects whose checks have been run so far
    uuids,        \* the run-global map UUID -> metadata path
    intervals,    \* the run-global IntervalTree
    label,        \* the project in hand: its LIMB or LEAF label,
    metadata,     \*   its ProjectMetadata,
    plans,        \*   the action states of its ProjectPlans,
    outcome,      \*   and how its checks ended: "ok" or the exception raised
    diagnostics,  \* what runValidate has printed
    report,       \* the fields of the exception raised: file, line and message,
                  \*   or the bounds of an overlap as a one-element set
    vpc,          \* runValidate: "loop", "checked", "done"
    \* ---- one function called on its own
    args,         \* the arguments of the call
    result        \* what the call returned or raised; Pending before the call

mvars == <<model, constraints, state_queue, bag_fifo, bag_index, gen, yielded,
           derived, mpc, ret, printed, errbag>>

vvars == <<nprojects, checked, uuids, intervals, label, metadata, plans, outcome,
           diagnostics, report, vpc>>

cvars == <<args, result>>

vars == <<mvars, vvars, cvars>>

-----------------------------------------------------------------------------
(* Bounds of the model universe *)

MaxCount == 1     \* exact counts n are drawn from 0..MaxCount
SearchDepth == 2  \* the bag size up to which the whole search graph is explored
MaxTime == 2      \* timestamps are drawn from 0..MaxTime
MaxCalls == 2     \* the projects checked in one run
MaxPlan == 3      \* the actions of a plan checked on its own
MaxFolders == 4   \* the folders of a walked tree

\* sorted(model.action_states)
Acts == <<"HOLD", "WAIT", "WORK">>
ActionStates == {Acts[i] : i \in 1..Len(Acts)}

EmptyNames == <<"NOTE", "IDEA">>
OpenNames  == <<"START">>
ShutNames  == <<"CLOSE">>

\* the lower bounds n of the entries (n,)
Lowers == {0}

\* Python's None, where a field is absent or nothing was raised
None == "-"

-----------------------------------------------------------------------------
(* Small helpers on sequences *)

RECURSIVE SumSeq(_)
SumSeq(s) == IF s = <<>> THEN 0 ELSE Head(s) + SumSeq(Tail(s))

Range(s) == {s[i] : i \in 1..Len(s)}

Prefixes(s) == {SubSeq(s, 1, n) : n \in 0..Len(s)}

-----------------------------------------------------------------------------
(* StateModel: the typed record of STATES.yml (states.py, lines 66-83) *)

\* One value of ConstrainedState.constraints: Union[int, tuple[int],
\* tuple[int, int], StateStr].  kind is the Python type compileConstraints and
\* checkModelValidity dispatch on; iv holds the integers, ref the cross-reference.
IntEntry(n)   == [kind |-> "int",   iv |-> <<n>>, ref |-> None]
TupleEntry(t) == [kind |-> "tuple", iv |-> t,     ref |-> None]
StrEntry(a)   == [kind |-> "str",   iv |-> <<>>,  ref |-> a]

Entries ==
    {IntEntry(n) : n \in 0..MaxCount}
    \cup {TupleEntry(<<n>>) : n \in Lowers}
    \cup {StrEntry(a) : a \in ActionStates}

\* The constraints mappings of the universe: every declared action state is a
\* key, and a cross-reference names another action state, which may itself be
\* a cross-reference (a chain or a cycle, for checkModelValidity to reject)
Descs == {d \in [ActionStates -> Entries] : \A a \in ActionStates : d[a].ref # a}

NamedDescs(names) ==
    UNION {[1..Len(p) -> Descs] : p \in Prefixes(names)}

StateModels ==
    {[empty_states |-> e, open_descs |-> o, shut_descs |-> s] :
        e \in Prefixes(EmptyNames) \ {<<>>},
        o \in NamedDescs(OpenNames),
        s \in NamedDescs(ShutNames)}

\* model.open_states.items() and model.shut_states.items(), chained
ConstrainedStates(m) ==
    [i \in 1..Len(m.open_descs) |->
        [state |-> OpenNames[i], constraints |-> m.open_descs[i]]]
    \o [i \in 1..Len(m.shut_descs) |->
        [state |-> ShutNames[i], constraints |-> m.shut_descs[i]]]

OpenStatesOf(m) == {OpenNames[i] : i \in 1..Len(m.open_descs)}
ShutStatesOf(m) == {ShutNames[i] : i \in 1..Len(m.shut_descs)}
EmptyStatesOf(m) == Range(m.empty_states)

-----------------------------------------------------------------------------
(* checkModelValidity (states.py, lines 341-381).  A constraints mapping is *)
(* a function from its keys to entries.  The three loops of one project     *)
(* state raise the same exception, so the result is the conjunction of      *)
(* their tests; the third loop runs only when the keys are the declared     *)
(* action states, so constraints[c] is defined where line 377 reads it.     *)

\* checkModelValidity without the test of line 377 on the target's own entry
checkModelValidityNoChainTest(m) ==
    IF \A i \in 1..Len(ConstrainedStates(m)) :
          LET desc == ConstrainedStates(m)[i].constraints IN
          /\ \A a \in DOMAIN desc : a \in ActionStates
          /\ \A a \in ActionStates : a \in DOMAIN desc
          /\ \A a \in DOMAIN desc :
                 desc[a].kind = "str" => desc[a].ref \in ActionStates
    THEN None
    ELSE "ModelValidityError"

checkModelValidity(m) ==
    IF \A i \in 1..Len(ConstrainedStates(m)) :
          LET desc == ConstrainedStates(m)[i].constraints IN
          \* lines 358-363
          /\ \A a \in DOMAIN desc : a \in ActionStates
          \* lines 364-369
          /\ \A a \in ActionStates : a \in DOMAIN desc
          \* lines 370-381
          /\ \A a \in DOMAIN desc :
                 desc[a].kind = "str" =>
                     /\ desc[a].ref \in ActionStates
                     /\ desc[desc[a].ref].kind # "str"
    THEN None
    ELSE "ModelValidityError"

-----------------------------------------------------------------------------
(* compileConstraints (states.py, lines 117-180) *)

\* lines 161-167: the simple constraints, in the order of model.action_states
RECURSIVE SimpleClauses(_, _)
SimpleClauses(desc, i) ==
    IF i > Len(Acts) THEN <<>>
    ELSE LET a == Acts[i]
             c == desc[a]
             rest == SimpleClauses(desc, i + 1)
         IN  IF c.kind = "int"
                THEN <<[actions |-> <<a>>, interval |-> <<c.iv[1], c.iv[1]>>]>> \o rest
             ELSE IF c.kind = "tuple"
                THEN <<[actions |-> <<a>>, interval |-> c.iv]>> \o rest
             ELSE rest

\* lines 173-176: append a to the first clause whose first action state is c
FirstWithHead(C_state, c) ==
    LET hits == {j \in 1..Len(C_state) : C_state[j].actions[1] = c}
    IN  IF hits = {} THEN 0 ELSE CHOOSE j \in hits : \A k \in hits : j <= k

\* the compilation without its second pass: cross-references are dropped
MergeXrefsSkipped(desc, C_state, i) == C_state

\* lines 170-176: the cross-references, in the order of model.action_states
RECURSIVE MergeXrefs(_, _, _)
MergeXrefs(desc, C_state, i) ==
    IF i > Len(Acts) THEN C_state
    ELSE LET a == Acts[i]
             c == desc[a]
             j == FirstWithHead(C_state, c.ref)
         IN  IF c.kind = "str" /\ j # 0
                THEN MergeXrefs(desc,
                        [C_state EXCEPT ![j].actions = Append(@, a)], i + 1)
                ELSE MergeXrefs(desc, C_state, i + 1)

\* lines 150-153: every empty state forbids every action state
EmptyConstraint ==
    [i \in 1..Len(Acts) |-> [actions |-> <<Acts[i]>>, interval |-> <<0, 0>>]]

compileConstraints(m) ==
    [i \in 1..Len(m.empty_states) |->
        [state |-> m.empty_states[i], constraint |-> EmptyConstraint]]
    \o [i \in 1..Len(ConstrainedStates(m)) |->
        LET d == ConstrainedStates(m)[i] IN
        [state |-> d.state,
         constraint |-> MergeXrefs(d.constraints,
                                   SimpleClauses(d.constraints, 1), 1)]]

\* constraints[state]
ConstraintOf(C, state) ==
    LET i == CHOOSE j \in 1..Len(C) : C[j].state = state IN C[i].constraint

-----------------------------------------------------------------------------
(* satisfies and classifiers (states.py, lines 183-218).  An ActionCounts   *)
(* bag holds one count per action state: a function ActionStates -> Nat.    *)

\* line 194: sum(n for s, n in counts if s in actions)
RECURSIVE TotalIn(_, _, _)
TotalIn(actions, counts, i) ==
    IF i > Len(Acts) THEN 0
    ELSE (IF Acts[i] \in Range(actions) THEN counts[Acts[i]] ELSE 0)
         + TotalIn(actions, counts, i + 1)

satisfies(constraint, counts) ==
    \A i \in 1..Len(constraint) :
        LET interval == constraint[i].interval
            total == TotalIn(constraint[i].actions, counts, 1)
        IN  /\ ~(interval[1] > total)
            /\ ~(Len(interval) > 1 /\ total > interval[2])

RECURSIVE classifiersFrom(_, _, _)
classifiersFrom(C, counts, i) ==
    IF i > Len(C) THEN <<>>
    ELSE (IF satisfies(C[i].constraint, counts) THEN <<C[i].state>> ELSE <<>>)
         \o classifiersFrom(C, counts, i + 1)

classifiers(C, counts) == classifiersFrom(C, counts, 1)

BagSize(counts) == TotalIn(Acts, counts, 1)

ZeroBag == [a \in ActionStates |-> 0]

-----------------------------------------------------------------------------
(* yieldClassifications (states.py, lines 221-310).  The generator's locals *)
(* between two yields are the record g: fifo and index are bag_fifo and     *)
(* bag_index, seen the bags pushBag has classified, edges the calls of      *)
(* pushBag that queued a bag, err the exception raised (None while none is) *)
(* and at the bag it was raised on.                                         *)

\* line 263: set(chain(model.empty_states, model.open_states))
open_states(m) == EmptyStatesOf(m) \cup OpenStatesOf(m)

\* pushBag without the uniqueness test: a bag with several classifiers is
\* filed under the first of them
pushBagFirstClassifier(m, C, g, curr_state, succ_bag) ==
    IF g.err # None \/ succ_bag \in DOMAIN g.index THEN g
    ELSE LET succ_states == classifiers(C, succ_bag)
             g1 == [g EXCEPT !.seen = @ \cup {succ_bag}]
         IN  IF Len(succ_states) >= 1
                THEN IF succ_states[1] \in open_states(m)
                        \/ curr_state \in open_states(m)
                        THEN [g1 EXCEPT !.fifo = Append(@, succ_bag),
                                        !.index = (succ_bag :> succ_states[1]) @@ @]
                        ELSE g1
             ELSE g1

\* pushBag without the test of line 247: a classified bag is queued whatever
\* the two project states are
pushBagUngated(m, C, g, curr_state, succ_bag) ==
    IF g.err # None \/ succ_bag \in DOMAIN g.index THEN g
    ELSE LET succ_states == classifiers(C, succ_bag)
             g1 == [g EXCEPT !.seen = @ \cup {succ_bag}]
         IN  IF Len(succ_states) = 1
                THEN [g1 EXCEPT !.fifo = Append(@, succ_bag),
                                !.index = (succ_bag :> succ_states[1]) @@ @]
             ELSE IF Len(succ_states) > 1
                THEN [g1 EXCEPT !.err = "NameError", !.at = succ_bag]
             ELSE g1

\* lines 240-258.  Line 255 reads `states`, a name bound nowhere in the
\* function or the module: building the message raises NameError, so the
\* ModelSatisfactionError of line 252 is never constructed.
pushBag(m, C, g, curr_state, succ_bag) ==
    IF g.err # None \/ succ_bag \in DOMAIN g.index THEN g
    ELSE LET succ_states == classifiers(C, succ_bag)
             g1 == [g EXCEPT !.seen = @ \cup {succ_bag}]
         IN  IF Len(succ_states) = 1
                THEN IF succ_states[1] \in open_states(m)
                        \/ curr_state \in open_states(m)
                        THEN [g1 EXCEPT !.fifo = Append(@, succ_bag),
                                        !.index = (succ_bag :> succ_states[1]) @@ @]
                        ELSE g1
             ELSE IF Len(succ_states) > 1
                THEN [g1 EXCEPT !.err = "NameError", !.at = succ_bag]
             ELSE g1

\* pushBag(curr_state, succ_bag) called while the generator works on
\* curr_bag; the call is noted in edges when it queues succ_bag
pushBagFrom(m, C, g, curr_state, curr_bag, succ_bag) ==
    LET g1 == pushBag(m, C, g, curr_state, succ_bag) IN
    IF Len(g1.fifo) > Len(g.fifo)
        THEN [g1 EXCEPT !.edges = @ \cup {[from |-> curr_bag,
                                           from_state |-> curr_state,
                                           to |-> succ_bag,
                                           to_state |-> g1.index[succ_bag]]}]
        ELSE g1

\* an insertion that adds no action: the successor is the yielded bag itself,
\* which has left the index
InsBagNothing(bag, a) == bag

\* line 284
InsBag(bag, a) == [bag EXCEPT ![a] = @ + 1]

\* a transition that takes the action out of a_curr and puts it nowhere
TrnBagRemoveOnly(bag, a_curr, a_succ) == [bag EXCEPT ![a_curr] = @ - 1]

\* lines 299-309
TrnBag(bag, a_curr, a_succ) == [bag EXCEPT ![a_curr] = @ - 1, ![a_succ] = @ + 1]

\* lines 283-285
RECURSIVE pushInsertions(_, _, _, _, _, _)
pushInsertions(m, C, g, state, bag, i) ==
    IF i > Len(Acts) THEN g
    ELSE pushInsertions(m, C,
                        pushBagFrom(m, C, g, state, bag, InsBag(bag, Acts[i])),
                        state, bag, i + 1)

\* lines 295-310: the transitions of new_bag, a_curr and a_succ in sorted order
RECURSIVE pushTransitions(_, _, _, _, _, _, _)
pushTransitions(m, C, g, new_state, new_bag, i, j) ==
    IF i > Len(Acts) THEN g
    ELSE IF j > Len(Acts) THEN pushTransitions(m, C, g, new_state, new_bag, i + 1, 1)
    ELSE IF new_bag[Acts[i]] > 0 /\ Acts[j] # Acts[i]
        THEN pushTransitions(m, C,
                pushBagFrom(m, C, g, new_state, new_bag,
                            TrnBag(new_bag, Acts[i], Acts[j])),
                new_state, new_bag, i, j + 1)
        ELSE pushTransitions(m, C, g, new_state, new_bag, i, j + 1)

\* lines 288-310: while new_bag_pos < len(bag_fifo)
RECURSIVE transitionLoop(_, _, _, _)
transitionLoop(m, C, g, new_bag_pos) ==
    IF g.err # None \/ new_bag_pos > Len(g.fifo) THEN g
    ELSE LET new_bag == g.fifo[new_bag_pos]
             new_state == g.index[new_bag]
         IN  transitionLoop(m, C,
                 pushTransitions(m, C, g, new_state, new_bag, 1, 1),
                 new_bag_pos + 1)

\* lines 281-310: what the generator does with the pair it yielded last, when resumed
expand(m, C, g, state, bag) ==
    transitionLoop(m, C, pushInsertions(m, C, g, state, bag, 1), Len(g.fifo) + 1)

-----------------------------------------------------------------------------
(* checkModelSatisfaction (states.py, lines 384-410) *)

\* line 396: sum(m for _, m, *_ in c)
\* the sum line 396 would take if a clause's lower bound were counted once for
\* each action state of the clause
RECURSIVE MinDepthPerAction(_)
MinDepthPerAction(constraint) ==
    IF constraint = <<>> THEN 0
    ELSE Head(constraint).interval[1] * Len(Head(constraint).actions)
         + MinDepthPerAction(Tail(constraint))

RECURSIVE MinDepth(_)
MinDepth(constraint) ==
    IF constraint = <<>> THEN 0
    ELSE Head(constraint).interval[1] + MinDepth(Tail(constraint))

\* lines 395-397; the states are distinct keys, so the sorted list is a set
initialStateQueue(C) == {<<MinDepth(C[i].constraint), C[i].state>> : i \in 1..Len(C)}

\* the states the error of line 407 would name if it named every state queued
unsatisfiedAll(Q, depth) == {q[2] : q \in Q}

\* line 406: the states named by the error, s for d, s in state_queue if d < depth
unsatisfied(Q, depth) == {q[2] : q \in {x \in Q : x[1] < depth}}

\* state_queue[0][0] of the sorted list
FirstDepth(Q) == CHOOSE d \in {q[1] : q \in Q} : \A q \in Q : d <= q[1]

-----------------------------------------------------------------------------
(* runModel (console.py, lines 84-125) *)

\* the variables of runValidate, which runModel leaves alone
IdleValidate ==
    /\ nprojects = 0
    /\ checked = 0
    /\ uuids = <<>>
    /\ intervals = {}
    /\ label = None
    /\ metadata = None
    /\ plans = <<>>
    /\ outcome = None
    /\ diagnostics = <<>>
    /\ report = None
    /\ vpc = "done"

\* the result of a call that has not returned yet
Pending == [err |-> "pending"]

\* no function is called on its own
IdleCalls ==
    /\ args = None
    /\ result = None

InitModel ==
    /\ IdleValidate
    /\ IdleCalls
    /\ model \in StateModels
    /\ constraints = <<>>
    /\ state_queue = {}
    /\ bag_fifo = <<>>
    /\ bag_index = <<>>
    /\ gen = "unstarted"
    /\ yielded = <<>>
    /\ derived = {}
    /\ mpc = "load"
    /\ ret = "running"
    /\ printed = None
    /\ errbag = None

\* lines 103-106, up to the first next() of the for loop of states.py line 398.
\* The five sections of the universe take their names from disjoint tables, so
\* checkModelPartition passes.
LoadModel ==
    /\ mpc = "load"
    /\ IF checkModelValidity(model) # None
          THEN /\ mpc' = "done"
               /\ printed' = "Failed validation"
               /\ UNCHANGED <<constraints, state_queue>>
          ELSE /\ mpc' = "search"
               /\ constraints' = compileConstraints(model)
               /\ state_queue' = initialStateQueue(compileConstraints(model))
               /\ UNCHANGED printed
    /\ UNCHANGED <<model, bag_fifo, bag_index, gen, yielded, derived, ret, errbag>>
    /\ UNCHANGED <<vvars, cvars>>

\* One turn of the for loop of checkModelSatisfaction: the generator runs from
\* where it stands to its next yield (states.py lines 273-310), then the loop
\* body handles the pair (lines 399-410).
NextClassification ==
    /\ mpc = "search"
    /\ LET g0 == IF gen = "unstarted"
                    \* lines 273-274
                    THEN [fifo |-> <<ZeroBag>>,
                          index |-> (ZeroBag :> model.empty_states[1]),
                          seen |-> {}, edges |-> {}, err |-> None, at |-> None]
                    ELSE expand(model, constraints,
                                [fifo |-> bag_fifo, index |-> bag_index,
                                 seen |-> {}, edges |-> {}, err |-> None, at |-> None],
                                yielded[Len(yielded)][1], yielded[Len(yielded)][2])
       IN  /\ derived' = derived \cup g0.seen
           /\ IF g0.err # None
                 \* pushBag raised: the exception leaves checkModelSatisfaction and,
                 \* caught by no handler of runModel, ends the command
                 THEN /\ gen' = "closed"
                      /\ bag_fifo' = g0.fifo
                      /\ bag_index' = g0.index
                      /\ errbag' = g0.at
                      /\ ret' = g0.err
                      /\ printed' = "Traceback"
                      /\ mpc' = "done"
                      /\ UNCHANGED <<yielded, state_queue, report>>
              ELSE IF g0.fifo = <<>>
                 \* line 275: the queue is empty, the generator returns, the for
                 \* loop ends and checkModelSatisfaction falls off its end
                 THEN /\ gen' = "closed"
                      /\ bag_fifo' = g0.fifo
                      /\ bag_index' = g0.index
                      /\ ret' = "None"
                      /\ printed' = "OK"
                      /\ mpc' = "done"
                      /\ UNCHANGED <<yielded, state_queue, errbag, report>>
              ELSE LET bag == Head(g0.fifo)
                       state == g0.index[bag]
                       depth == BagSize(bag)
                       hit == depth = FirstDepth(state_queue)
                              /\ <<depth, state>> \in state_queue
                       Q == IF hit THEN state_queue \ {<<depth, state>>}
                                   ELSE state_queue
                   IN  \* lines 277-279
                       /\ gen' = "suspended"
                       /\ bag_fifo' = Tail(g0.fifo)
                       /\ bag_index' = [b \in DOMAIN g0.index \ {bag} |-> g0.index[b]]
                       /\ yielded' = Append(yielded, <<state, bag>>)
                       /\ state_queue' = Q
                       /\ UNCHANGED errbag
                       \* lines 399-410
                       /\ IF hit /\ Q = {}
                             THEN /\ ret' = "True"
                                  /\ printed' = "OK"
                                  /\ mpc' = "done"
                                  /\ UNCHANGED report
                          ELSE IF depth > FirstDepth(state_queue)
                             \* lines 405-410
                             THEN /\ ret' = "ModelSatisfactionError"
                                  /\ report' = [file |-> "STATES.yml",
                                                message |-> "cannot be derived",
                                                states |-> unsatisfied(state_queue, depth)]
                                  /\ printed' = "Failed validation"
                                  /\ mpc' = "done"
                          ELSE UNCHANGED <<ret, printed, mpc, report>>
    /\ UNCHANGED <<model, constraints>>
    /\ UNCHANGED <<nprojects, checked, uuids, intervals, label, metadata, plans,
                   outcome, diagnostics, vpc, cvars>>

NextModel == LoadModel \/ NextClassification

SpecModel == InitModel /\ [][NextModel]_vars

-----------------------------------------------------------------------------
(* The search of yieldClassifications run on its own, with no consumer to   *)
(* stop it: every bag of size below maxSize the generator yields is         *)
(* expanded (states.py lines 275-310).                                      *)

RECURSIVE runGenerator(_, _, _, _)
runGenerator(m, C, g, maxSize) ==
    IF g.err # None \/ g.fifo = <<>> THEN g
    ELSE LET bag == Head(g.fifo)
             state == g.index[bag]
             g1 == [g EXCEPT !.fifo = Tail(g.fifo),
                             !.index = [b \in DOMAIN g.index \ {bag} |-> g.index[b]]]
         IN  IF BagSize(bag) >= maxSize
                THEN runGenerator(m, C, g1, maxSize)
                ELSE runGenerator(m, C, expand(m, C, g1, state, bag), maxSize)

wholeSearch(m, C, maxSize) ==
    runGenerator(m, C,
                 [fifo |-> <<ZeroBag>>, index |-> (ZeroBag :> m.empty_states[1]),
                  seen |-> {}, edges |-> {}, err |-> None, at |-> None],
                 maxSize)

-----------------------------------------------------------------------------
(* Claims about the state-model analyser *)

Accepted == mpc = "done" /\ ret \in {"True", "None"}

LeafStatesOf(m) == EmptyStatesOf(m) \cup OpenStatesOf(m) \cup ShutStatesOf(m)

YieldedAtMinDepth(state) ==
    \E i \in 1..Len(yielded) :
        /\ yielded[i][1] = state
        /\ BagSize(yielded[i][2]) = MinDepth(ConstraintOf(constraints, state))

\* C2: whenever checkModelSatisfaction finishes without raising, every state of
\* empty_states, open_states and shut_states was yielded by the search with a
\* bag whose size is the sum of the lower bounds of the state's clauses.
C2_AcceptedYieldsEveryState ==
    Accepted => \A state \in LeafStatesOf(model) : YieldedAtMinDepth(state)

\* C3, as claimed: in an accepted model no bag the search rules reach from the
\* all-zero bag (here: up to size SearchDepth + 1) satisfies two project states.
C3_AcceptedUniqueOnReachable ==
    (Accepted /\ ret = "True")
        => wholeSearch(model, constraints, SearchDepth + 1).err = None

\* C3, amended: in an accepted model every bag the search derived, by an
\* insertion or a transition, before checkModelSatisfaction returned is
\* classified by at most one project state.
C3_AcceptedUniqueOnDerived ==
    Accepted => \A b \in derived : Len(classifiers(constraints, b)) <= 1

\* an accepted model whose search derived bags with one classifier and with none
C3_Witness ==
    /\ Accepted
    /\ ret = "True"
    /\ \E b \in derived : Len(classifiers(constraints, b)) = 1
    /\ \E b \in derived : Len(classifiers(constraints, b)) = 0

\* C4: when the search derives a bag that satisfies more than one project
\* state, checkModelSatisfaction fails with ModelSatisfactionError and no other
\* error, and the bag is neither queued nor yielded.
C4_AmbiguousBagIsModelSatisfactionError ==
    \A b \in derived :
        Len(classifiers(constraints, b)) > 1 =>
            /\ ret = "ModelSatisfactionError"
            /\ b \notin Range(bag_fifo)
            /\ \A i \in 1..Len(yielded) : yielded[i][2] # b

-----------------------------------------------------------------------------
(* The state model of the project forest that runValidate loads (getModel,  *)
(* states.py lines 413-433): limb ROOT, empty NOTE, open START, shut CLOSE. *)

limb_states == {"ROOT"}

ForestModel ==
    [empty_states |-> <<"NOTE">>,
     open_descs |-> <<[HOLD |-> TupleEntry(<<0>>), WAIT |-> StrEntry("HOLD"),
                       WORK |-> IntEntry(1)]>>,
     shut_descs |-> <<[HOLD |-> IntEntry(0), WAIT |-> IntEntry(0),
                       WORK |-> IntEntry(0)]>>]

\* projects.py lines 164-169
project_states(m) ==
    limb_states \cup EmptyStatesOf(m) \cup OpenStatesOf(m) \cup ShutStatesOf(m)

-----------------------------------------------------------------------------
(* Logbooks (projects.py lines 85-107).  A logbook lists its entries newest *)
(* first, so logbook[-1], the oldest entry, is the last of the sequence.    *)
(* Timestamps are the naturals 0..MaxTime.                                  *)

Times == 0..MaxTime

\* the project states a logbook entry may name
LogStates == {"ROOT", "START", "CLOSE"}

TransitionEntries ==
    [type : {"transition"}, at : Times, to_state : LogStates,
     from_state : LogStates \cup {None}]

IntervalEntries == [type : {"interval"}, start : Times, stop : Times]

LogEntries == TransitionEntries \cup IntervalEntries

\* the logbooks of one and of two entries
Logbooks == {<<e>> : e \in LogEntries}
            \cup {<<e, f>> : e \in LogEntries, f \in LogEntries}

-----------------------------------------------------------------------------
(* The run-global IntervalTree (console.py line 144), a set of intervals    *)
(* [begin, end) with the metadata path as data.                             *)

\* the overlap query as a point query at start: an interval that begins
\* inside [start, stop) goes unseen
overlapAtStart(tree, start, stop) ==
    IF start >= stop THEN {}
    ELSE {iv \in tree : iv.begin <= start /\ iv.end > start}

\* intervals[start : stop], the overlap query of the tree: the intervals that
\* share a point with [start, stop); none when start >= stop
overlap(tree, start, stop) ==
    IF start >= stop THEN {}
    ELSE {iv \in tree : iv.begin < stop /\ iv.end > start}

\* intervals[start : stop] = data.  The tree holds no null interval: adding
\* one with start >= stop raises ValueError.
addi(tree, start, stop, data) ==
    tree \cup {[begin |-> start, end |-> stop, data |-> data]}

-----------------------------------------------------------------------------
(* checkProjectChronology (projects.py, lines 249-365).  The result is the  *)
(* record [err, tree, reports]: the exception raised (None when the check   *)
(* returns), the interval tree the call leaves behind, and the bounds an    *)
(* overlap error can report.                                                *)

\* the message of line 303 with the bounds of the new entry
olapReportOfEntry(curr, olap) ==
    [olap_start |-> curr.start, olap_stop |-> curr.stop]

\* lines 299-300 and the message of line 303: the bounds the error reports
\* for the recorded interval olap
olapReport(curr, olap) ==
    [olap_start |-> IF curr.start >= olap.begin THEN curr.start ELSE olap.begin,
     olap_stop |-> IF curr.stop <= olap.end THEN curr.stop ELSE olap.end]

\* lines 289-306: the interval entries, in the order of the logbook.
\* reports holds the messages the overlap error can carry, one for each
\* interval that next(iter(...)) of line 298 can draw from the query's set.
RECURSIVE checkIntervals(_, _, _, _)
checkIntervals(tree, logbook, fname, i) ==
    IF i > Len(logbook) THEN [err |-> None, tree |-> tree, reports |-> {}]
    ELSE LET curr == logbook[i] IN
         IF curr.type # "interval" THEN checkIntervals(tree, logbook, fname, i + 1)
         ELSE IF curr.stop < curr.start
            THEN [err |-> "ProjectChronologyError", tree |-> tree, reports |-> {}]
         ELSE IF overlap(tree, curr.start, curr.stop) # {}
            THEN [err |-> "ProjectChronologyError", tree |-> tree,
                  reports |-> {olapReport(curr, olap) :
                               olap \in overlap(tree, curr.start, curr.stop)}]
         ELSE IF curr.start >= curr.stop
            THEN [err |-> "ValueError", tree |-> tree, reports |-> {}]
         ELSE checkIntervals(addi(tree, curr.start, curr.stop, fname),
                             logbook, fname, i + 1)

\* lines 330-360: the walk from the entry before the inception to the newest;
\* the result is pred_state, or the error raised
RECURSIVE walkLogbook(_, _, _, _, _)
walkLogbook(m, logbook, i, pred_state, pred_stop) ==
    IF i < 1 THEN [err |-> None, pred_state |-> pred_state]
    ELSE LET curr == logbook[i] IN
         IF curr.type = "transition"
            THEN IF curr.at < pred_stop
                    THEN [err |-> "ProjectChronologyError", pred_state |-> pred_state]
                 ELSE IF curr.from_state # pred_state
                    THEN [err |-> "ProjectChronologyError", pred_state |-> pred_state]
                 ELSE walkLogbook(m, logbook, i - 1, curr.to_state, curr.at)
            ELSE IF curr.start < pred_stop
                    THEN [err |-> "ProjectChronologyError", pred_state |-> pred_state]
                 ELSE IF pred_state \in limb_states
                    THEN [err |-> "ProjectChronologyError", pred_state |-> pred_state]
                 ELSE IF pred_state \in ShutStatesOf(m)
                    THEN [err |-> "ProjectChronologyError", pred_state |-> pred_state]
                 ELSE walkLogbook(m, logbook, i - 1, pred_state, curr.stop)

\* checkProjectChronology without the test of lines 361-365 that the walk ends
\* in the project's current state
checkProjectChronologyNoFinalState(m, tree, md) ==
    LET logbook == md.logbook
        oldest == logbook[Len(logbook)]
        ivs == checkIntervals(tree, logbook, md.fname, 1)
        walk == walkLogbook(m, logbook, Len(logbook) - 1, oldest.to_state, oldest.at)
    IN  IF ivs.err # None THEN ivs
        ELSE IF oldest.type # "transition" \/ oldest.from_state # None
            THEN [err |-> "ProjectChronologyError", tree |-> ivs.tree, reports |-> {}]
        ELSE IF md.todo \in limb_states /\ Len(logbook) > 1
            THEN [err |-> "ProjectChronologyError", tree |-> ivs.tree, reports |-> {}]
        ELSE IF walk.err # None
            THEN [err |-> walk.err, tree |-> ivs.tree, reports |-> {}]
        ELSE [err |-> None, tree |-> ivs.tree, reports |-> {}]

checkProjectChronology(m, tree, md) ==
    LET logbook == md.logbook
        oldest == logbook[Len(logbook)]
        ivs == checkIntervals(tree, logbook, md.fname, 1)
        walk == walkLogbook(m, logbook, Len(logbook) - 1, oldest.to_state, oldest.at)
    IN  IF ivs.err # None THEN ivs
        \* lines 309-316
        ELSE IF oldest.type # "transition" \/ oldest.from_state # None
            THEN [err |-> "ProjectChronologyError", tree |-> ivs.tree, reports |-> {}]
        \* lines 319-323
        ELSE IF md.todo \in limb_states /\ Len(logbook) > 1
            THEN [err |-> "ProjectChronologyError", tree |-> ivs.tree, reports |-> {}]
        ELSE IF walk.err # None
            THEN [err |-> walk.err, tree |-> ivs.tree, reports |-> {}]
        \* lines 361-365
        ELSE IF walk.pred_state # md.todo
            THEN [err |-> "ProjectChronologyError", tree |-> ivs.tree, reports |-> {}]
        ELSE [err |-> None, tree |-> ivs.tree, reports |-> {}]

-----------------------------------------------------------------------------
(* checkProjectState (projects.py, lines 142-204) *)

\* checkProjectState with the test of a transition's `to` only
checkProjectStateToOnly(m, lbl, md, pl) ==
    IF md.todo \notin project_states(m) THEN "ProjectStateError"
    ELSE IF lbl = "LIMB" /\ md.todo \notin limb_states THEN "ProjectStateError"
    ELSE IF \E i \in 1..Len(md.logbook) :
               /\ md.logbook[i].type = "transition"
               /\ md.logbook[i].to_state \notin project_states(m)
        THEN "ProjectStateError"
    ELSE IF \E i \in 1..Len(pl) : pl[i] \notin ActionStates THEN "ProjectStateError"
    ELSE None

checkProjectState(m, lbl, md, pl) ==
    IF md.todo \notin project_states(m) THEN "ProjectStateError"
    ELSE IF lbl = "LIMB" /\ md.todo \notin limb_states THEN "ProjectStateError"
    ELSE IF \E i \in 1..Len(md.logbook) :
               /\ md.logbook[i].type = "transition"
               /\ \/ md.logbook[i].to_state \notin project_states(m)
                  \/ /\ md.logbook[i].from_state # None
                     /\ md.logbook[i].from_state \notin project_states(m)
        THEN "ProjectStateError"
    ELSE IF \E i \in 1..Len(pl) : pl[i] \notin ActionStates THEN "ProjectStateError"
    ELSE None

-----------------------------------------------------------------------------
(* checkProjectIdentity (projects.py, lines 207-246).  The result is the    *)
(* record [err, uuids].  Line 230 reads `fname`, a name bound nowhere in    *)
(* the function or the module: building the ProjectIdentityError of a UUID  *)
(* collision raises NameError instead.                                      *)

checkProjectIdentity(m, ids, lbl, md) ==
    IF md.uuid \in DOMAIN ids
        THEN [err |-> "NameError", uuids |-> ids]
    ELSE LET ids1 == (md.uuid :> md.fname) @@ ids IN
         IF md.slug # md.folder /\ md.todo \notin limb_states
            THEN [err |-> "ProjectIdentityError", uuids |-> ids1]
            ELSE [err |-> None, uuids |-> ids1]

-----------------------------------------------------------------------------
(* checkProjectSatisfaction (projects.py, lines 368-416) *)

\* the plan actions whose state is one of `states`
CountIn(states, pl) == Cardinality({i \in 1..Len(pl) : pl[i] \in Range(states)})

\* the exception of lines 407-410 and 413-416: ProjectSatisfactionError(
\* metadata.fname, message).  The exception has a file and a message; the
\* line of the loop variable `line, state, title` goes into neither, so the
\* set of line numbers the exception cites is empty.
UpperBoundError(md, clause) ==
    [err |-> "ProjectSatisfactionError", file |-> md.fname, lines |-> {},
     message |-> [text |-> "Upper bound on actions states exceeded",
                  todo |-> md.todo, lo |-> clause.interval[1],
                  states |-> clause.actions, hi |-> clause.interval[2]]]

LowerBoundError(md, clause) ==
    [err |-> "ProjectSatisfactionError", file |-> md.fname, lines |-> {},
     message |-> [text |-> "Lower bound on action states not reached",
                  todo |-> md.todo, lo |-> clause.interval[1],
                  states |-> clause.actions, hi |-> None]]

\* lines 386-389
LimbActionError(md, state) ==
    [err |-> "ProjectSatisfactionError", file |-> md.fname, lines |-> {},
     message |-> [text |-> "Actions MUST NOT be recorded against limb project state",
                  todo |-> md.todo, lo |-> None, states |-> <<state>>, hi |-> None]]

NoError == [err |-> None, file |-> None, lines |-> {}, message |-> None]

\* lines 391-416: the clauses of constraints[metadata.todo], in order
RECURSIVE checkClauses(_, _, _, _)
checkClauses(constraint, md, pl, i) ==
    IF i > Len(constraint) THEN NoError
    ELSE LET count == CountIn(constraint[i].actions, pl)
             interval == constraint[i].interval
         IN  IF Len(interval) > 1 /\ count > interval[2]
                THEN UpperBoundError(md, constraint[i])
             ELSE IF count < interval[1]
                THEN LowerBoundError(md, constraint[i])
             ELSE checkClauses(constraint, md, pl, i + 1)

\* checkProjectSatisfaction with the test of the upper bound only
checkProjectSatisfactionUpperOnly(C, md, pl) ==
    IF md.todo \notin {C[i].state : i \in 1..Len(C)}
        THEN IF Len(pl) > 0 THEN LimbActionError(md, pl[1]) ELSE NoError
    ELSE LET constraint == ConstraintOf(C, md.todo)
             over == {i \in 1..Len(constraint) :
                         /\ Len(constraint[i].interval) > 1
                         /\ CountIn(constraint[i].actions, pl)
                                > constraint[i].interval[2]}
         IN  IF over = {} THEN NoError
             ELSE UpperBoundError(md, constraint[CHOOSE i \in over :
                                                     \A j \in over : i <= j])

\* the result is the exception raised, or NoError when the check returns
checkProjectSatisfaction(C, md, pl) ==
    IF md.todo \notin {C[i].state : i \in 1..Len(C)}
        \* lines 384-389
        THEN IF Len(pl) > 0 THEN LimbActionError(md, pl[1]) ELSE NoError
    ELSE checkClauses(ConstraintOf(C, md.todo), md, pl, 1)

-----------------------------------------------------------------------------
(* runValidate (console.py, lines 128-182) *)

Uuids == {"uuid-a", "uuid-b"}
Slugs == {"foo", "bar"}
Folder == "foo"

\* the logbooks of the forest: an inception at time 0, and at most one
\* interval entry after it
ForestLogbooks ==
    LET inceptions == {e \in TransitionEntries : e.at = 0 /\ e.from_state = None}
    IN  {<<e>> : e \in inceptions}
        \cup {<<f, e>> : f \in IntervalEntries, e \in inceptions}

\* the plans of the forest: at most one action, whose state may be undeclared
ForestPlans == {<<>>} \cup {<<a>> : a \in ActionStates \cup {"BOGUS"}}

\* lines 146-147: the state model of the forest, compiled; runModel is not run
ForestLoaded ==
    /\ model = ForestModel
    /\ constraints = compileConstraints(ForestModel)
    /\ state_queue = {}
    /\ bag_fifo = <<>>
    /\ bag_index = <<>>
    /\ gen = "unstarted"
    /\ yielded = <<>>
    /\ derived = {}
    /\ mpc = "done"
    /\ ret = None
    /\ printed = None
    /\ errbag = None

InitValidate ==
    /\ ForestLoaded
    /\ nprojects \in 1..MaxCalls
    /\ checked = 0
    /\ uuids = <<>>
    /\ intervals = {}
    /\ label = None
    /\ metadata = None
    /\ plans = <<>>
    /\ outcome = None
    /\ diagnostics = <<>>
    /\ report = None
    /\ vpc = "loop"
    /\ IdleCalls

\* lines 159-162, with the exception of the first check that fails
checkProject(m, C, ids, tree, lbl, md, pl) ==
    LET st == checkProjectState(m, lbl, md, pl)
        id == checkProjectIdentity(m, ids, lbl, md)
        ch == checkProjectChronology(m, tree, md)
        sa == checkProjectSatisfaction(C, md, pl)
    IN  IF st # None
            THEN [err |-> st, uuids |-> ids, tree |-> tree, report |-> None]
        ELSE IF id.err # None
            THEN [err |-> id.err, uuids |-> id.uuids, tree |-> tree, report |-> None]
        ELSE IF ch.err # None
            THEN [err |-> ch.err, uuids |-> id.uuids, tree |-> ch.tree, report |-> None]
        ELSE [err |-> sa.err, uuids |-> id.uuids, tree |-> ch.tree,
              report |-> IF sa.err = None THEN None
                         ELSE [file |-> sa.file, lines |-> sa.lines,
                               message |-> sa.message]]

\* One turn of the for loop, lines 148-162: the walker yields the next
\* project, its two files are read and the four checks run.  An exception
\* leaves the loop, which lies inside the try statement: the handlers of
\* lines 163-172 print the project errors, and nothing returns to the loop.
ValidateProject ==
    /\ vpc = "loop"
    /\ checked < nprojects
    /\ \E lbl \in {"LIMB", "LEAF"}, u \in Uuids, sl \in Slugs,
          todo \in project_states(model) \cup {"BOGUS"},
          lb \in ForestLogbooks, pl \in ForestPlans :
          LET md == [fname |-> checked + 1, uuid |-> u, slug |-> sl,
                     folder |-> Folder, todo |-> todo, logbook |-> lb]
              r == checkProject(model, constraints, uuids, intervals, lbl, md, pl)
          IN  /\ label' = lbl
              /\ metadata' = md
              /\ plans' = pl
              /\ uuids' = r.uuids
              /\ intervals' = r.tree
              /\ checked' = checked + 1
              /\ report' = r.report
              /\ IF r.err = None
                    THEN /\ outcome' = "ok"
                         /\ vpc' = "checked"
                         /\ UNCHANGED diagnostics
                 ELSE IF r.err \in {"ProjectStateError", "ProjectIdentityError",
                                    "ProjectChronologyError",
                                    "ProjectSatisfactionError"}
                    THEN /\ outcome' = r.err
                         /\ vpc' = "done"
                         /\ diagnostics' = Append(diagnostics, r.err)
                 ELSE /\ outcome' = r.err
                      /\ vpc' = "done"
                      /\ diagnostics' = Append(diagnostics, "Traceback")
    /\ UNCHANGED <<nprojects, mvars, cvars>>

\* the for loop takes its next turn
NextProject ==
    /\ vpc = "checked"
    /\ vpc' = "loop"
    /\ label' = None
    /\ metadata' = None
    /\ plans' = <<>>
    /\ outcome' = None
    /\ report' = None
    /\ UNCHANGED <<nprojects, checked, uuids, intervals, diagnostics, mvars, cvars>>

\* the walker is exhausted and runValidate returns
EndOfForest ==
    /\ vpc = "loop"
    /\ checked = nprojects
    /\ vpc' = "done"
    /\ UNCHANGED <<nprojects, checked, uuids, intervals, label, metadata, plans,
                   outcome, diagnostics, report, mvars, cvars>>

Next == ValidateProject \/ NextProject \/ EndOfForest

Spec == InitValidate /\ [][Next]_vars

-----------------------------------------------------------------------------
(* checkProjectChronology called for one project after the other on the     *)
(* run's interval tree, each project past checkProjectState                 *)

InitChronology ==
    /\ InitValidate
    /\ nprojects = MaxCalls

CallChronology ==
    /\ vpc = "loop"
    /\ checked < nprojects
    /\ \E todo \in LogStates, lb \in Logbooks :
          LET md == [fname |-> checked + 1, uuid |-> "uuid-a", slug |-> Folder,
                     folder |-> Folder, todo |-> todo, logbook |-> lb]
              r == checkProjectChronology(model, intervals, md)
          IN  /\ metadata' = md
              /\ intervals' = r.tree
              /\ outcome' = IF r.err = None THEN "ok" ELSE r.err
              /\ report' \in IF r.reports = {} THEN {{}}
                              ELSE {{olap} : olap \in r.reports}
    /\ checked' = checked + 1
    /\ vpc' = "checked"
    /\ UNCHANGED <<nprojects, uuids, label, plans, diagnostics, mvars, cvars>>

NextChronology == CallChronology \/ NextProject

SpecChronology == InitChronology /\ [][NextChronology]_vars

-----------------------------------------------------------------------------
(* Claims about runValidate and checkProjectIdentity *)

ValidationErrors == {"ProjectStateError", "ProjectIdentityError",
                     "ProjectChronologyError", "ProjectSatisfactionError"}

\* C1: a validation failure raised while checking one project stops the
\* validation of that project only: when runValidate has ended on nothing but
\* validation failures, every project the walker yields has been checked.
C1_LaterProjectsStillChecked ==
    (vpc = "done" /\ outcome \in ValidationErrors) => checked = nprojects

\* the project in hand passed checkProjectState and carries the UUID the map
\* holds for a project checked before it
UuidCollision ==
    /\ outcome # None
    /\ checkProjectState(model, label, metadata, plans) = None
    /\ metadata.uuid \in DOMAIN uuids
    /\ uuids[metadata.uuid] # metadata.fname

\* C5: checkProjectIdentity on a project whose UUID is that of a project
\* checked before it in the run fails with ProjectIdentityError.
C5_CollisionIsProjectIdentityError ==
    UuidCollision => outcome = "ProjectIdentityError"

-----------------------------------------------------------------------------
(* Claims about checkProjectChronology *)

Disjoint(a, b) == a.end <= b.begin \/ b.end <= a.begin

\* C6: after any sequence of checkProjectChronology calls the intervals of the
\* run's interval tree are pairwise disjoint as half-open intervals
\* [start, stop), within one project and across projects.
C6_IntervalsPairwiseDisjoint ==
    \A a \in intervals : \A b \in intervals : a # b => Disjoint(a, b)

\* the tree holds two intervals of different projects that touch at an endpoint
C6_Witness ==
    \E a \in intervals : \E b \in intervals :
        a.data # b.data /\ a.end = b.begin

\* the logbook in hand is an inception into the project's current state, an
\* empty or open state, followed by one interval entry of zero length that
\* starts no earlier than the inception
ZeroLengthInValidLogbook ==
    /\ outcome # None
    /\ Len(metadata.logbook) = 2
    /\ metadata.logbook[1].type = "interval"
    /\ metadata.logbook[1].stop = metadata.logbook[1].start
    /\ metadata.logbook[2].type = "transition"
    /\ metadata.logbook[2].from_state = None
    /\ metadata.logbook[2].to_state = metadata.todo
    /\ metadata.todo \notin limb_states \cup ShutStatesOf(model)
    /\ metadata.logbook[1].start >= metadata.logbook[2].at

\* C7: an interval entry with stop = start, in an otherwise valid logbook,
\* causes no error of any kind.
C7_ZeroLengthIntervalAccepted ==
    ZeroLengthInValidLogbook => outcome = "ok"

\* the transition entries of a logbook, newest first
Transitions(logbook) == SelectSeq(logbook, LAMBDA e : e.type = "transition")

\* the chain of transitions is broken: a transition does not leave the state
\* the nearest older transition entered, or the newest transition does not
\* enter the project's current state
ChainBroken(md) ==
    LET trs == Transitions(md.logbook) IN
    /\ Len(trs) >= 1
    /\ \/ \E i \in 1..(Len(trs) - 1) : trs[i].from_state # trs[i + 1].to_state
       \/ trs[1].to_state # md.todo

\* C8: any break in the chain of transitions, up to the project's current
\* state, raises ProjectChronologyError.
C8_ChainBreakIsProjectChronologyError ==
    (outcome # None /\ ChainBroken(metadata)) => outcome = "ProjectChronologyError"

\* an interval entry occurs while the state the nearest older transition entry
\* entered is a limb state or a shut state
EffortInLimbOrShut(m, md) ==
    \E i \in 1..Len(md.logbook) : \E j \in (i + 1)..Len(md.logbook) :
        /\ md.logbook[i].type = "interval"
        /\ md.logbook[j].type = "transition"
        /\ \A k \in (i + 1)..(j - 1) : md.logbook[k].type = "interval"
        /\ md.logbook[j].to_state \in limb_states \cup ShutStatesOf(m)

\* C9: every logbook in which an interval entry occurs while the project is in
\* a limb state or a shut state is rejected with ProjectChronologyError.
C9_EffortInLimbOrShutIsProjectChronologyError ==
    (outcome # None /\ EffortInLimbOrShut(model, metadata))
        => outcome = "ProjectChronologyError"

\* the only entry of the logbook is the inception into the project's state
SingleInception(md) ==
    /\ md.logbook[1].type = "transition"
    /\ md.logbook[1].from_state = None
    /\ md.logbook[1].to_state = md.todo

\* C10: on a logbook of exactly one entry checkProjectChronology succeeds if
\* and only if the entry is a transition with no `from` whose `to` is the
\* project's current state.
C10_SingleEntryLogbook ==
    (outcome # None /\ Len(metadata.logbook) = 1)
        => (outcome = "ok" <=> SingleInception(metadata))

\* a logbook whose only entry is the inception into the open state START, the
\* project's current state, was accepted
C10_Witness ==
    /\ outcome = "ok"
    /\ Len(metadata.logbook) = 1
    /\ SingleInception(metadata)
    /\ metadata.todo = "START"

-----------------------------------------------------------------------------
(* checkProjectSatisfaction called on its own: one project state, open,     *)
(* whose constraints take every form of entry; a plan of up to MaxPlan      *)
(* actions of declared action states; the project in the limb state, the    *)
(* empty state or the open state.                                           *)

PlanEntries ==
    {IntEntry(n) : n \in 0..MaxCount}
    \cup {TupleEntry(<<n>>) : n \in 0..MaxCount}
    \cup {TupleEntry(<<0, MaxCount>>)}
    \cup {StrEntry(a) : a \in ActionStates}

PlanModels ==
    {m \in {[empty_states |-> <<"NOTE">>, open_descs |-> <<d>>, shut_descs |-> <<>>] :
                d \in [ActionStates -> PlanEntries]} :
        checkModelValidity(m) = None}

PlansUpTo(n) == UNION {[1..k -> ActionStates] : k \in 0..n}

\* the ActionCounts of a plan
CountsOf(pl) ==
    [a \in ActionStates |-> Cardinality({i \in 1..Len(pl) : pl[i] = a})]

InitCallSatisfaction ==
    /\ ForestLoaded
    /\ IdleValidate
    /\ args \in [model : PlanModels, todo : {"ROOT", "NOTE", "START"},
                 plans : PlansUpTo(MaxPlan)]
    /\ result = Pending

CallSatisfaction ==
    /\ result = Pending
    /\ result' = checkProjectSatisfaction(compileConstraints(args.model),
                                          [fname |-> 1, todo |-> args.todo],
                                          args.plans)
    /\ UNCHANGED <<mvars, vvars, args>>

SpecSatisfaction == InitCallSatisfaction /\ [][CallSatisfaction]_vars

-----------------------------------------------------------------------------
(* Claims about checkProjectSatisfaction *)

\* the call has returned, for a project whose state is a key of the compiled
\* constraints
SatisfactionChecked ==
    /\ result # Pending
    /\ args.todo \in {"NOTE", "START"}

\* C11: for a project whose state is a key of the compiled constraints and
\* whose plan uses only declared action states, checkProjectSatisfaction
\* succeeds if and only if satisfies(constraints[state], counts) holds of the
\* plan's action counts; and a clause (S, 0, 0) rejects every plan with an
\* action whose state is in S.
C11_SatisfactionIffSatisfies ==
    SatisfactionChecked =>
        LET constraint == ConstraintOf(compileConstraints(args.model), args.todo) IN
        /\ result.err = None <=> satisfies(constraint, CountsOf(args.plans))
        /\ \A i \in 1..Len(constraint) :
               (/\ constraint[i].interval = <<0, 0>>
                /\ \E k \in 1..Len(args.plans) :
                       args.plans[k] \in Range(constraint[i].actions))
               => result.err = "ProjectSatisfactionError"

\* a plan of three actions is accepted in the open state, one of whose clauses
\* joins two action states and one of whose clauses has a lower bound only
C11_Witness ==
    /\ SatisfactionChecked
    /\ args.todo = "START"
    /\ result.err = None
    /\ Len(args.plans) = 3
    /\ LET constraint == ConstraintOf(compileConstraints(args.model), "START") IN
       /\ \E i \in 1..Len(constraint) : Len(constraint[i].actions) = 2
       /\ \E i \in 1..Len(constraint) : constraint[i].interval = <<1>>

\* the plan exceeds the upper bound of a clause of the project's state
UpperBoundExceeded ==
    /\ SatisfactionChecked
    /\ result.err = "ProjectSatisfactionError"
    /\ result.message.text = "Upper bound on actions states exceeded"

\* the position in the plan of the n-th action whose state is in S; the
\* i-th action of a plan stands on line i
LineOfNth(pl, S, n) ==
    CHOOSE i \in 1..Len(pl) :
        /\ pl[i] \in S
        /\ Cardinality({k \in 1..i : pl[k] \in S}) = n

\* C12: when a plan exceeds the upper bound hi of a clause (S, lo, hi), the
\* ProjectSatisfactionError shows `state: lo <= S <= hi` and cites the line
\* of the (hi+1)-th plan action whose state is in S.
C12_UpperBoundErrorCitesLine ==
    UpperBoundExceeded =>
        /\ result.message.todo = args.todo
        /\ \E i \in 1..Len(ConstraintOf(compileConstraints(args.model), args.todo)) :
               LET clause == ConstraintOf(compileConstraints(args.model),
                                          args.todo)[i]
               IN  /\ result.message.states = clause.actions
                   /\ <<result.message.lo, result.message.hi>> = clause.interval
        /\ result.lines = {LineOfNth(args.plans, Range(result.message.states),
                                     result.message.hi + 1)}

-----------------------------------------------------------------------------
(* Claims about compileConstraints and checkModelValidity *)

\* the places (clause, position) at which action state a occurs in a constraint
Occurrences(constraint, a) ==
    {<<j, k>> \in (1..Len(constraint)) \X (1..Len(Acts)) :
        k <= Len(constraint[j].actions) /\ constraint[j].actions[k] = a}

\* the constraints mapping of an open or shut state of m: a function on the
\* action states; of an empty state: the same, with no cross-reference
DescOf(m, state) ==
    LET hits == {i \in 1..Len(ConstrainedStates(m)) :
                    ConstrainedStates(m)[i].state = state}
    IN  IF hits = {} THEN [a \in ActionStates |-> IntEntry(0)]
        ELSE ConstrainedStates(m)[CHOOSE i \in hits : TRUE].constraints

\* C13: for a state model that passes checkModelValidity, the clauses that
\* compileConstraints produces for a project state partition the action
\* states: each action state occurs in exactly one clause, and one declared
\* as a cross-reference to a' occurs in the clause of a'.
C13_ClausesPartitionActionStates ==
    \A i \in 1..Len(constraints) :
        LET constraint == constraints[i].constraint
            desc == DescOf(model, constraints[i].state)
        IN  \A a \in ActionStates :
                /\ Cardinality(Occurrences(constraint, a)) = 1
                /\ desc[a].kind = "str" =>
                      \E j \in 1..Len(constraint) :
                          /\ a \in Range(constraint[j].actions)
                          /\ desc[a].ref \in Range(constraint[j].actions)

\* a valid model was compiled in which two action states refer to the third
C13_Witness ==
    /\ mpc = "search"
    /\ \E i \in 1..Len(constraints) :
           \E j \in 1..Len(constraints[i].constraint) :
               Len(constraints[i].constraint[j].actions) = 3

-----------------------------------------------------------------------------
(* checkModelValidity called on its own, on state models whose constraints  *)
(* mappings may miss a declared action state, hold an undeclared one, and   *)
(* refer to any name, the key itself included.                              *)

\* an action state no model declares
Undeclared == "JUNK"

RawEntries ==
    {IntEntry(0), TupleEntry(<<0>>)}
    \cup {StrEntry(a) : a \in ActionStates \cup {Undeclared}}

RawDescs ==
    UNION {[K -> RawEntries] : K \in SUBSET (ActionStates \cup {Undeclared})}

\* a valid constraints mapping
PlainDesc == [a \in ActionStates |-> IntEntry(0)]

\* one open state, or one open and one shut state of which one is plain
RawModels ==
    {[empty_states |-> <<"NOTE">>, open_descs |-> <<d>>, shut_descs |-> <<>>] :
        d \in RawDescs}
    \cup {[empty_states |-> <<"NOTE">>, open_descs |-> <<PlainDesc>>,
           shut_descs |-> <<d>>] : d \in RawDescs}
    \cup {[empty_states |-> <<"NOTE">>, open_descs |-> <<d>>,
           shut_descs |-> <<PlainDesc>>] : d \in RawDescs}

InitCallValidity ==
    /\ ForestLoaded
    /\ IdleValidate
    /\ args \in [model : RawModels]
    /\ result = Pending

CallValidity ==
    /\ result = Pending
    /\ result' = [err |-> checkModelValidity(args.model)]
    /\ UNCHANGED <<mvars, vvars, args>>

SpecValidity == InitCallValidity /\ [][CallValidity]_vars

\* a constraints mapping is well formed: its keys are the declared action
\* states, and every cross-reference names a declared action state whose own
\* entry is not a cross-reference
WellFormedDesc(desc) ==
    /\ DOMAIN desc = ActionStates
    /\ \A a \in DOMAIN desc :
           desc[a].kind = "str" =>
               \E b \in ActionStates : desc[a].ref = b /\ desc[b].kind # "str"

\* C14: checkModelValidity succeeds if and only if every open and shut state's
\* constraints have the declared action states as their keys and every
\* cross-reference names a declared action state whose own entry is not a
\* cross-reference; otherwise it raises ModelValidityError.  A cross-reference
\* of an action state to itself is rejected.
C14_ValidityIffWellFormed ==
    result # Pending =>
        /\ result.err = None <=>
               \A d \in Range(args.model.open_descs)
                        \cup Range(args.model.shut_descs) : WellFormedDesc(d)
        /\ result.err \in {None, "ModelValidityError"}
        /\ (\E d \in Range(args.model.open_descs) \cup Range(args.model.shut_descs) :
               \E a \in DOMAIN d : d[a].kind = "str" /\ d[a].ref = a)
           => result.err = "ModelValidityError"

\* a model whose shut state has the declared keys and a chain of two
\* cross-references was rejected
C14_Witness ==
    /\ result # Pending
    /\ result.err = "ModelValidityError"
    /\ Len(args.model.shut_descs) = 1
    /\ LET d == args.model.shut_descs[1] IN
       /\ DOMAIN d = ActionStates
       /\ d["WORK"] = StrEntry("WAIT")
       /\ d["WAIT"] = StrEntry("HOLD")
       /\ d["HOLD"] = IntEntry(0)

-----------------------------------------------------------------------------
(* checkProjectState called on its own, on logbooks and plans that may name *)
(* states the model does not declare                                        *)

\* the transitions at time 0 between any two names, and one interval
StateLogEntries ==
    [type : {"transition"}, at : {0}, to_state : LogStates \cup {"BOGUS"},
     from_state : LogStates \cup {"BOGUS", None}]
    \cup {[type |-> "interval", start |-> 0, stop |-> 1]}

StateLogbooks ==
    {<<e>> : e \in StateLogEntries}
    \cup {<<e, f>> : e \in StateLogEntries, f \in StateLogEntries}

InitCallState ==
    /\ ForestLoaded
    /\ IdleValidate
    /\ args \in [label : {"LIMB", "LEAF"},
                 todo : project_states(ForestModel) \cup {"BOGUS"},
                 logbook : StateLogbooks,
                 plans : ForestPlans]
    /\ result = Pending

CallState ==
    /\ result = Pending
    /\ result' = [err |-> checkProjectState(model, args.label,
                                            [fname |-> 1, todo |-> args.todo,
                                             logbook |-> args.logbook],
                                            args.plans)]
    /\ UNCHANGED <<mvars, vvars, args>>

SpecState == InitCallState /\ [][CallState]_vars

\* the declared project states of the forest's model
DeclaredProjectStates ==
    limb_states \cup EmptyStatesOf(ForestModel) \cup OpenStatesOf(ForestModel)
                \cup ShutStatesOf(ForestModel)

\* what checkProjectState is to require of a project
StatesDeclared(lbl, todo, logbook, pl) ==
    /\ todo \in DeclaredProjectStates
    /\ lbl = "LIMB" => todo \in limb_states
    /\ \A i \in 1..Len(logbook) :
           logbook[i].type = "transition" =>
               /\ logbook[i].to_state \in DeclaredProjectStates
               /\ logbook[i].from_state \in DeclaredProjectStates \cup {None}
    /\ \A i \in 1..Len(pl) : pl[i] \in ActionStates

\* C15: checkProjectState succeeds if and only if the project's state is a
\* declared project state, a limb state whenever the label is LIMB, every `to`
\* and every present `from` of the logbook's transitions is a declared project
\* state and every plan action's state is a declared action state; otherwise
\* it raises ProjectStateError.  A LEAF project in a limb state passes.
C15_StateCheckIffDeclared ==
    result # Pending =>
        /\ result.err = None <=>
               StatesDeclared(args.label, args.todo, args.logbook, args.plans)
        /\ result.err \in {None, "ProjectStateError"}

\* a LEAF project in the limb state passed, with a logbook of two transitions
\* and a plan of one action
C15_Witness ==
    /\ result # Pending
    /\ result.err = None
    /\ args.label = "LEAF"
    /\ args.todo \in limb_states
    /\ Len(args.logbook) = 2
    /\ args.logbook[1].type = "transition"
    /\ args.logbook[1].from_state # None
    /\ Len(args.plans) = 1

-----------------------------------------------------------------------------
(* run (console.py, lines 185-271): the command calls args.func(args) and   *)
(* returns.  A handler that printed its diagnostic returns normally, and    *)
(* the process ends with exit code 0; an exception no handler catches ends  *)
(* it with a traceback and exit code 1.                                     *)

exit_code == IF printed = "Traceback" THEN 1 ELSE 0

\* C16: the model command ends with exit code 0 only on success: when a check
\* failed it prints the diagnostics and ends with a non-zero exit code.
C16_ExitCodeZeroOnlyOnSuccess ==
    mpc = "done" => (exit_code = 0 <=> printed = "OK")

-----------------------------------------------------------------------------
(* yieldLabeledProjectFiles (hierarchy.py, lines 69-159).  A folder tree    *)
(* numbers its folders 1..n, the start directory d being folder 1 and each  *)
(* folder's parent having a smaller number; d.iterdir() lists the children  *)
(* of a folder in the order of their numbers, which over all trees is every *)
(* order.  files tells which of METADATA.yml and PLANS.rst a folder holds,  *)
(* name whether its name is ordinary, one of EXCLUDE_DIRS or VCS_BNAME.     *)
(* above is what d.parent holds.                                            *)

Files == {"both", "none", "metadata", "plans"}
Names == {"ordinary", "excluded", "vcs"}

ParentSeqs(n) ==
    {p \in [1..n -> 0..(n - 1)] : p[1] = 0 /\ \A i \in 2..n : p[i] >= 1 /\ p[i] < i}

\* the .git folder lies in the start directory and holds no project
FolderTrees ==
    UNION {
        {t \in [parent : ParentSeqs(n), files : [1..n -> Files],
                name : {nm \in [1..n -> Names] : nm[1] = "ordinary"},
                above : {"both", "none"}] :
            \A i \in 2..n :
                /\ t.name[i] = "vcs" => t.parent[i] = 1 /\ t.files[i] = "none"
                /\ t.name[t.parent[i]] # "vcs"} :
        n \in 1..MaxFolders}

\* lines 93-108: TRUE, FALSE, or the HierarchyError raised
isProject(files) ==
    IF files = "both" THEN "True"
    ELSE IF files = "none" THEN "False"
    ELSE "HierarchyError"

\* the subdirectories of d with no test of their names
subdirsNotExcluded(t, d) ==
    LET n == Len(t.parent)
        F[i \in 0..n] ==
            IF i = 0 THEN <<>>
            ELSE IF t.parent[i] = d THEN Append(F[i - 1], i) ELSE F[i - 1]
    IN  F[n]

\* lines 116-117, 120-121, 131-132: the subdirectories e of d with
\* e.name not in EXCLUDE_DIRS, in the order of d.iterdir()
subdirs(t, d) ==
    LET n == Len(t.parent)
        F[i \in 0..n] ==
            IF i = 0 THEN <<>>
            ELSE IF t.parent[i] = d /\ t.name[i] # "excluded"
                THEN Append(F[i - 1], i) ELSE F[i - 1]
    IN  F[n]

\* hunt (lines 110-122) and visit (lines 124-144) on folder d, after the
\* generator has produced w: the result is [yields, err], the triples yielded
\* (as label and folder) and the exception that ended the walk, if one did
RECURSIVE walk(_, _, _, _)
RECURSIVE walkEach(_, _, _, _, _)
walk(t, mode, d, w) ==
    LET is == isProject(t.files[d])
        es == subdirs(t, d)
    IN  IF is = "HierarchyError" THEN [w EXCEPT !.err = "HierarchyError"]
        ELSE IF mode = "hunt"
            THEN IF is = "True"
                    THEN walkEach(t, "visit", es, 1,
                                  [w EXCEPT !.yields = Append(@, <<"LIMB", d>>)])
                    ELSE walkEach(t, "hunt", es, 1, w)
        ELSE IF is = "True"
            THEN IF es = <<>>
                    THEN [w EXCEPT !.yields = Append(@, <<"LEAF", d>>)]
                    ELSE walkEach(t, "visit", es, 1,
                                  [w EXCEPT !.yields = Append(@, <<"LIMB", d>>)])
        ELSE [w EXCEPT !.err = "HierarchyError"]

walkEach(t, mode, es, i, w) ==
    IF w.err # None \/ i > Len(es) THEN w
    ELSE walkEach(t, mode, es, i + 1, walk(t, mode, es[i], w))

\* lines 147-159
yieldLabeledProjectFiles(t) ==
    LET w0 == [yields |-> <<>>, err |-> None]
        is == isProject(t.files[1])
        g == \E e \in 2..Len(t.parent) : t.parent[e] = 1 /\ t.name[e] = "vcs"
    IN  IF is = "HierarchyError" THEN [w0 EXCEPT !.err = "HierarchyError"]
        ELSE IF is = "False" THEN walk(t, "hunt", 1, w0)
        ELSE IF g THEN walk(t, "hunt", 1, w0)
        ELSE IF isProject(t.above) = "HierarchyError"
            THEN [w0 EXCEPT !.err = "HierarchyError"]
        ELSE IF isProject(t.above) = "False" THEN walk(t, "hunt", 1, w0)
        ELSE walk(t, "visit", 1, w0)

InitCallWalk ==
    /\ ForestLoaded
    /\ IdleValidate
    /\ args \in FolderTrees
    /\ result = Pending

\* the generator is run to its end
CallWalk ==
    /\ result = Pending
    /\ result' = yieldLabeledProjectFiles(args)
    /\ UNCHANGED <<mvars, vvars, args>>

SpecWalk == InitCallWalk /\ [][CallWalk]_vars

\* x is a folder above y
Above(t, x, y) ==
    LET R[j \in 0..Len(t.parent)] ==
            IF j = 0 THEN FALSE ELSE IF j = x THEN TRUE ELSE R[t.parent[j]]
    IN  x # y /\ R[y]

\* no folder from d up to the start directory, which is not tested, has a
\* name of EXCLUDE_DIRS
NotExcluded(t, d) ==
    LET W[j \in 1..Len(t.parent)] ==
            IF j = 1 THEN TRUE ELSE t.name[j] # "excluded" /\ W[t.parent[j]]
    IN  W[d]

\* the project folders of the walked subtree
WalkedProjects(t) ==
    {d \in 1..Len(t.parent) : t.files[d] = "both" /\ NotExcluded(t, d)}

\* a well-formed folder tree: a folder the walk comes to holds both files or
\* none, and holds both when its parent does
WellFormedTree(t) ==
    \A d \in 1..Len(t.parent) :
        NotExcluded(t, d) =>
            /\ t.files[d] \in {"both", "none"}
            /\ (d # 1 /\ t.files[t.parent[d]] = "both") => t.files[d] = "both"

\* folder d is reached in visit mode: below a project, or as the start
\* directory of a walk that begins inside a project subtree
VisitMode(t, d) ==
    IF d = 1
        THEN /\ t.files[1] = "both"
             /\ t.above = "both"
             /\ ~\E e \in 2..Len(t.parent) : t.parent[e] = 1 /\ t.name[e] = "vcs"
        ELSE \E a \in 1..Len(t.parent) : Above(t, a, d) /\ t.files[a] = "both"

-----------------------------------------------------------------------------
(* compileConstraints called again and again on one state model, with the   *)
(* lists of action states it builds kept as objects on a heap: a clause     *)
(* holds the address of its list, and line 175 appends to the list in       *)
(* place.  The state model holds strings, integers and tuples only, none of *)
(* which can be changed in place, and the function assigns to none of its   *)
(* fields.                                                                  *)

\* the list display [a] with a cell shared between the clauses that start
\* with the same action state
newListShared(heap, a) ==
    LET same == {addr \in 1..Len(heap) : heap[addr][1] = a}
    IN  IF same = {} THEN [heap |-> Append(heap, <<a>>), addr |-> Len(heap) + 1]
        ELSE [heap |-> heap, addr |-> CHOOSE addr \in same : TRUE]

\* lines 151, 165, 167: the list display [a] makes a new list
newList(heap, a) == [heap |-> Append(heap, <<a>>), addr |-> Len(heap) + 1]

\* lines 150-153: h is the record [heap, C_state]
RECURSIVE heapEmpty(_, _)
heapEmpty(h, i) ==
    IF i > Len(Acts) THEN h
    ELSE LET l == newList(h.heap, Acts[i]) IN
         heapEmpty([heap |-> l.heap,
                    C_state |-> Append(h.C_state,
                                       [cell |-> l.addr, interval |-> <<0, 0>>])],
                   i + 1)

\* lines 162-167
RECURSIVE heapSimple(_, _, _)
heapSimple(desc, h, i) ==
    IF i > Len(Acts) THEN h
    ELSE LET c == desc[Acts[i]]
             l == newList(h.heap, Acts[i])
         IN  IF c.kind = "int"
                THEN heapSimple(desc,
                        [heap |-> l.heap,
                         C_state |-> Append(h.C_state,
                                        [cell |-> l.addr,
                                         interval |-> <<c.iv[1], c.iv[1]>>])],
                        i + 1)
             ELSE IF c.kind = "tuple"
                THEN heapSimple(desc,
                        [heap |-> l.heap,
                         C_state |-> Append(h.C_state,
                                        [cell |-> l.addr, interval |-> c.iv])],
                        i + 1)
             ELSE heapSimple(desc, h, i + 1)

\* lines 170-176
RECURSIVE heapXrefs(_, _, _)
heapXrefs(desc, h, i) ==
    IF i > Len(Acts) THEN h
    ELSE LET a == Acts[i]
             c == desc[a]
             hits == {j \in 1..Len(h.C_state) : h.heap[h.C_state[j].cell][1] = c.ref}
         IN  IF c.kind = "str" /\ hits # {}
                THEN LET j == CHOOSE j \in hits : \A k \in hits : j <= k IN
                     heapXrefs(desc,
                               [h EXCEPT !.heap[h.C_state[j].cell] = Append(@, a)],
                               i + 1)
                ELSE heapXrefs(desc, h, i + 1)

\* lines 150-180: the result is [heap, C]
RECURSIVE heapConstrained(_, _, _, _)
heapConstrained(m, heap, C, i) ==
    IF i > Len(ConstrainedStates(m)) THEN [heap |-> heap, C |-> C]
    ELSE LET d == ConstrainedStates(m)[i]
             h == heapXrefs(d.constraints,
                            heapSimple(d.constraints,
                                       [heap |-> heap, C_state |-> <<>>], 1),
                            1)
         IN  heapConstrained(m, h.heap,
                             Append(C, [state |-> d.state, constraint |-> h.C_state]),
                             i + 1)

RECURSIVE heapEmpties(_, _, _, _)
heapEmpties(m, heap, C, i) ==
    IF i > Len(m.empty_states) THEN heapConstrained(m, heap, C, 1)
    ELSE LET h == heapEmpty([heap |-> heap, C_state |-> <<>>], 1) IN
         heapEmpties(m, h.heap,
                     Append(C, [state |-> m.empty_states[i],
                                constraint |-> h.C_state]),
                     i + 1)

compileConstraintsOnHeap(m, heap) == heapEmpties(m, heap, <<>>, 1)

\* the CompiledConstraints at the addresses of C
Deref(C, heap) ==
    [i \in 1..Len(C) |->
        [state |-> C[i].state,
         constraint |->
            [j \in 1..Len(C[i].constraint) |->
                [actions |-> heap[C[i].constraint[j].cell],
                 interval |-> C[i].constraint[j].interval]]]]

InitCallCompile ==
    /\ ForestLoaded
    /\ IdleValidate
    /\ args \in [model : {m \in StateModels : checkModelValidity(m) = None}]
    /\ result = [heap |-> <<>>, compiled |-> <<>>]

CallCompile ==
    /\ Len(result.compiled) < MaxCalls
    /\ LET r == compileConstraintsOnHeap(args.model, result.heap) IN
       result' = [heap |-> r.heap, compiled |-> Append(result.compiled, r.C)]
    /\ UNCHANGED <<mvars, vvars, args>>

SpecCompile == InitCallCompile /\ [][CallCompile]_vars

\* CompiledConstraints up to the order of the clauses and of the action
\* states in a clause
ClauseSets(C) ==
    {[state |-> C[i].state,
      clauses |-> {[actions |-> Range(C[i].constraint[j].actions),
                    size |-> Len(C[i].constraint[j].actions),
                    interval |-> C[i].constraint[j].interval] :
                   j \in 1..Len(C[i].constraint)}] : i \in 1..Len(C)}

\* C18: compiling the same valid state model again yields equal
\* CompiledConstraints, up to the order of the clauses: every result, as it
\* stands after the later calls, holds the clause sets and bounds of
\* compileConstraints(model).
C18_CompileIsIdempotent ==
    \A k \in 1..Len(result.compiled) :
        ClauseSets(Deref(result.compiled[k], result.heap))
            = ClauseSets(compileConstraints(args.model))

\* a model with a cross-reference in its open and in its shut state has been
\* compiled twice
C18_Witness ==
    /\ Len(result.compiled) = 2
    /\ Len(args.model.open_descs) = 1
    /\ Len(args.model.shut_descs) = 1
    /\ \E a \in ActionStates : args.model.open_descs[1][a].kind = "str"
    /\ \E a \in ActionStates : args.model.shut_descs[1][a].kind = "str"

-----------------------------------------------------------------------------
\* The interval entry e shares a point with the recorded interval iv, both
\* read as half-open intervals.
Overlaps(e, iv) ==
    /\ e.type = "interval"
    /\ e.start < e.stop
    /\ iv.begin < e.stop
    /\ iv.end > e.start

\* The loop of lines 289-306 has reached entry i of the logbook: the interval
\* entries before it were recorded.
LoopReaches(i) ==
    \A j \in 1..(i - 1) :
        metadata.logbook[j].type = "interval" =>
            /\ [begin |-> metadata.logbook[j].start, end |-> metadata.logbook[j].stop,
                data |-> metadata.fname] \in intervals
            /\ \A k \in 1..(j - 1) : ~ Overlaps(metadata.logbook[k],
                    [begin |-> metadata.logbook[j].start,
                     end |-> metadata.logbook[j].stop])

OverlapsOtherProject(i) ==
    /\ LoopReaches(i)
    /\ \E iv \in intervals :
          iv.data # metadata.fname /\ Overlaps(metadata.logbook[i], iv)

-----------------------------------------------------------------------------
\* C20: the pairs yieldClassifications yields come in non-decreasing order
\* of bag size: no pair is yielded after a pair with a strictly larger bag.
C20_YieldedInOrderOfBagSize ==
    \A i \in 1..Len(yielded) : \A j \in i..Len(yielded) :
        BagSize(yielded[i][2]) <= BagSize(yielded[j][2])

\* the generator has yielded the empty bag, two bags of one action and then
\* a bag of two
C20_Witness ==
    /\ Len(yielded) >= 4
    /\ BagSize(yielded[1][2]) = 0
    /\ \E i \in 1..Len(yielded) : \E j \in (i + 1)..Len(yielded) :
          /\ BagSize(yielded[i][2]) = 1
          /\ BagSize(yielded[j][2]) = 1
    /\ BagSize(yielded[Len(yielded)][2]) = 2

-----------------------------------------------------------------------------
\* C21: every pair (state, bag) the generator yields, the first pair with the
\* all-zero bag included, has classifiers(constraints, bag) = [state].
C21_YieldedUniquelyClassified ==
    \A i \in 1..Len(yielded) :
        classifiers(constraints, yielded[i][2]) = <<yielded[i][1]>>

-----------------------------------------------------------------------------
(* yieldClassifications run on its own: the generator is resumed again and  *)
(* again (states.py lines 273-310), whatever its consumer would do with the *)
(* pairs, until it has yielded a bag of more than MaxBag actions.  result   *)
(* is the generator: its queue and index, the pairs it yielded, the calls   *)
(* of pushBag that queued a bag, and the length the queue had at its last   *)
(* yield and has now.                                                       *)

MaxBag == 3

Resumable(ys) ==
    IF ys = <<>> THEN TRUE ELSE BagSize(ys[Len(ys)][2]) <= MaxBag

\* the valid state models; the generator reads of model.empty_states its
\* first key only (line 262)
ValidModels ==
    {m \in StateModels : Len(m.empty_states) = 1 /\ checkModelValidity(m) = None}

InitCallSearch ==
    /\ ForestLoaded
    /\ IdleValidate
    /\ args \in {[model |-> m, constraints |-> compileConstraints(m)] :
                    m \in ValidModels}
    /\ result = [gen |-> "unstarted", fifo |-> <<>>, index |-> <<>>,
                 yielded |-> <<>>, edges |-> {}, before |-> 0, after |-> 0,
                 err |-> None]

ResumeSearch ==
    /\ result.gen \in {"unstarted", "suspended"}
    /\ Resumable(result.yielded)
    /\ LET m == args.model
           C == args.constraints
           g0 == IF result.gen = "unstarted"
                    THEN [fifo |-> <<ZeroBag>>,
                          index |-> (ZeroBag :> m.empty_states[1]),
                          seen |-> {}, edges |-> {}, err |-> None, at |-> None]
                    ELSE expand(m, C,
                                [fifo |-> result.fifo, index |-> result.index,
                                 seen |-> {}, edges |-> {}, err |-> None,
                                 at |-> None],
                                result.yielded[Len(result.yielded)][1],
                                result.yielded[Len(result.yielded)][2])
           r0 == [result EXCEPT !.edges = @ \cup g0.edges,
                                !.before = Len(result.fifo),
                                !.after = Len(g0.fifo),
                                !.err = g0.err]
       IN  IF g0.err # None
              THEN result' = [r0 EXCEPT !.gen = "raised", !.fifo = g0.fifo,
                                        !.index = g0.index]
           ELSE IF g0.fifo = <<>>
              THEN result' = [r0 EXCEPT !.gen = "closed", !.fifo = g0.fifo,
                                        !.index = g0.index]
           ELSE LET bag == Head(g0.fifo) IN
                result' = [r0 EXCEPT
                    !.gen = "suspended",
                    !.fifo = Tail(g0.fifo),
                    !.index = [b \in DOMAIN g0.index \ {bag} |-> g0.index[b]],
                    !.yielded = Append(@, <<g0.index[bag], bag>>)]
    /\ UNCHANGED <<mvars, vvars, args>>

SpecSearch == InitCallSearch /\ [][ResumeSearch]_vars

-----------------------------------------------------------------------------
\* b2 is b with one more action in one action state
OneInsertion(b, b2) ==
    \E a \in ActionStates :
        /\ b2[a] = b[a] + 1
        /\ \A c \in ActionStates \ {a} : b2[c] = b[c]

\* b2 is b with one action moved from one action state to another
OneTransition(b, b2) ==
    \E a \in ActionStates : \E c \in ActionStates \ {a} :
        /\ b[a] > 0
        /\ b2[a] = b[a] - 1
        /\ b2[c] = b[c] + 1
        /\ \A d \in ActionStates \ {a, c} : b2[d] = b[d]

\* C22: a bag is queued only from a bag it is one insertion or one transition
\* away from, and only when the project state of one of the two is an open
\* or an empty state; the queued bag has exactly one classifier and the bag
\* it was queued from has the classifier the search holds for it.  So no bag
\* of a shut state is queued from a bag of a shut state, and every bag
\* queued, yielded or expanded has a classifier.
C22_EdgesAreGated ==
    /\ \A e \in result.edges :
          /\ OneInsertion(e.from, e.to) \/ OneTransition(e.from, e.to)
          /\ classifiers(args.constraints, e.to) = <<e.to_state>>
          /\ e.from_state \in Range(classifiers(args.constraints, e.from))
          /\ e.from_state \in open_states(args.model)
                \/ e.to_state \in open_states(args.model)
          /\ ~ (e.from_state \in ShutStatesOf(args.model)
                /\ e.to_state \in ShutStatesOf(args.model))
    /\ \A i \in 1..Len(result.fifo) :
          classifiers(args.constraints, result.fifo[i]) # <<>>
    /\ \A i \in 1..Len(result.yielded) :
          classifiers(args.constraints, result.yielded[i][2]) # <<>>

\* the search has queued a bag of an open state from a bag of a shut state,
\* a bag of a shut state from a bag of an open state, and a bag by transition
C22_Witness ==
    /\ \E e \in result.edges :
          /\ e.from_state \in ShutStatesOf(args.model)
          /\ e.to_state \in OpenStatesOf(args.model)
    /\ \E e \in result.edges :
          /\ e.from_state \in OpenStatesOf(args.model)
          /\ e.to_state \in ShutStatesOf(args.model)
    /\ \E e \in result.edges : OneTransition(e.from, e.to)

-----------------------------------------------------------------------------
\* the sequence holds no value twice
NoRepeat(q) == \A i \in 1..Len(q) : \A j \in 1..Len(q) : q[i] = q[j] => i = j

\* the bags the generator has yielded, then the bags still queued: every bag
\* ever queued, in the order of queueing
QueuedBags ==
    [i \in 1..Len(result.yielded) |-> result.yielded[i][2]] \o result.fifo

\* C23: the generator never revisits a bag, although a bag leaves the index
\* when it is yielded: no bag is queued twice and none is yielded twice.
C23_NoBagRevisited == NoRepeat(QueuedBags)

\* a bag has been yielded and has left the index while a bag of its size, one
\* transition away from it, is still queued
C23_Witness ==
    /\ result.gen = "suspended"
    /\ Len(result.yielded) >= 3
    /\ \E i \in 1..(Len(result.yielded) - 1) : \E b \in DOMAIN result.index :
          /\ BagSize(result.yielded[i][2]) = BagSize(b)
          /\ OneTransition(b, result.yielded[i][2])

-----------------------------------------------------------------------------
CannotBeDerived == mpc = "done" /\ ret = "ModelSatisfactionError"

LastDepth == BagSize(yielded[Len(yielded)][2])

\* the bags the search has queued for the state
QueuedFor(state) ==
    {yielded[i][2] : i \in {j \in 1..Len(yielded) : yielded[j][1] = state}}
    \cup {b \in DOMAIN bag_index : bag_index[b] = state}

\* C24: checkModelSatisfaction raises the "cannot be derived" error exactly
\* when a pair is yielded at a depth above the smallest min_depth still
\* queued; the error names exactly the queued states whose min_depth is
\* below that depth; the search has queued no bag of size min_depth for a
\* state so named; and a state has left the queue only if it was yielded at
\* its min_depth.
C24_CannotBeDerived ==
    /\ (yielded # <<>> /\ state_queue # {}) =>
          (LastDepth > FirstDepth(state_queue) <=> CannotBeDerived)
    /\ CannotBeDerived =>
          /\ yielded # <<>> /\ state_queue # {}
          /\ report.states =
                {C.state : C \in {D \in Range(constraints) :
                    /\ <<MinDepth(D.constraint), D.state>> \in state_queue
                    /\ MinDepth(D.constraint) < LastDepth}}
          /\ \A state \in report.states : \A b \in QueuedFor(state) :
                BagSize(b) # MinDepth(ConstraintOf(constraints, state))
    /\ mpc # "load" =>
          \A i \in 1..Len(constraints) :
              <<MinDepth(constraints[i].constraint), constraints[i].state>>
                  \notin state_queue
              => YieldedAtMinDepth(constraints[i].state)

\* the error is raised with two states queued: it names the one whose
\* min_depth is below the depth of the pair and not the other
C24_Witness ==
    /\ CannotBeDerived
    /\ report.states # {}
    /\ \E q \in state_queue : q[1] >= LastDepth /\ q[2] \notin report.states

-----------------------------------------------------------------------------
(* Termination of checkModelSatisfaction.  The command is one thread that   *)
(* runs until it returns or raises; LoadModel and NextClassification have   *)
(* no guard but mpc, so it ends when every step brings it closer to its end *)
(* and the pairs it can yield are finitely many.                            *)

\* every step ends the loading, ends the command or yields one more pair
EveryStepAdvances ==
    [][mpc' # mpc \/ Len(yielded') = Len(yielded) + 1]_vars

\* The deepest state of the model: the largest min_depth in the todo queue
\* as it is built (lines 395-397)
DeepestState ==
    CHOOSE d \in {q[1] : q \in initialStateQueue(constraints)} :
        \A q \in initialStateQueue(constraints) : q[1] <= d

\* What stops the search is the comparison of lines 399 and 404 with the
\* depths of the states still to find: no pair is yielded deeper than one
\* action below the deepest state.
StoppedByTodoQueue ==
    mpc # "load" =>
        \A i \in 1..Len(yielded) : BagSize(yielded[i][2]) <= DeepestState + 1

\* C25: checkModelSatisfaction ends on every valid state model because the
\* search is cut off at a ceiling on the size of the bags: no pair is
\* yielded with more than SearchDepth actions.
C25_SearchCutOffByCeiling ==
    \A i \in 1..Len(yielded) : BagSize(yielded[i][2]) <= SearchDepth

-----------------------------------------------------------------------------
\* C26: between one yield and the next the generator adds at most
\* |action_states| * (|action_states| + 1) bags to its queue.
C26_FrontierGrowthBounded ==
    result.after - result.before <= Len(Acts) * (Len(Acts) + 1)

-----------------------------------------------------------------------------
(* compileConstraints on the state models the type StateModel admits        *)
(* (states.py lines 72-76): a count is any int, a range any tuple[int, int] *)

RangeEntries ==
    {IntEntry(n) : n \in -1..MaxCount}
    \cup {TupleEntry(<<n>>) : n \in -1..MaxCount}
    \cup {TupleEntry(<<n, m>>) : n \in 0..MaxCount, m \in 0..MaxCount}
    \cup {StrEntry(a) : a \in ActionStates}

\* the models of one empty and one open state that pass checkModelValidity
RangeModels ==
    {m \in {[empty_states |-> <<"NOTE">>, open_descs |-> <<d>>, shut_descs |-> <<>>] :
                d \in [ActionStates -> RangeEntries]} :
        checkModelValidity(m) = None}

InitCallClauses ==
    /\ ForestLoaded
    /\ IdleValidate
    /\ args \in [model : RangeModels]
    /\ result = Pending

CallClauses ==
    /\ result = Pending
    /\ result' = [C |-> compileConstraints(args.model)]
    /\ UNCHANGED <<mvars, vvars, args>>

SpecClauses == InitCallClauses /\ [][CallClauses]_vars

\* the clauses of the open state
OpenClauses == Range(ConstraintOf(result.C, "START"))

\* Lines 162-167: an exact count n becomes (S, n, n) and a tuple (n,) or
\* (n, m) becomes (S, n) or (S, n, m), each for the action state it is
\* written at.
ClausesCopyEntries ==
    result # Pending =>
        \A clause \in OpenClauses :
            LET c == args.model.open_descs[1][clause.actions[1]] IN
            /\ c.kind = "int" => clause.interval = <<c.iv[1], c.iv[1]>>
            /\ c.kind = "tuple" => clause.interval = c.iv

\* C27: every clause compileConstraints produces has a non-empty set of
\* action states, a lower bound lo >= 0 and, when it has an upper bound,
\* hi >= lo.
C27_ClausesWellFormed ==
    result # Pending =>
        \A clause \in OpenClauses :
            /\ clause.actions # <<>>
            /\ clause.interval[1] >= 0
            /\ Len(clause.interval) = 2 => clause.interval[2] >= clause.interval[1]

-----------------------------------------------------------------------------
(* Claims about the order of time in a logbook (projects.py lines 278-279,  *)
(* 328-360)                                                                 *)

\* when an entry begins: curr.at of a transition, curr.start of an interval
Begins(entry) == IF entry.type = "transition" THEN entry.at ELSE entry.start

\* when an entry ends, the pred_stop the walk keeps: curr.at or curr.stop
Ends(entry) == IF entry.type = "transition" THEN entry.at ELSE entry.stop

\* read from oldest to newest, some entry begins before the entry preceding it
\* ends (the logbook is kept newest first)
StartsBeforePrecedingStops(md) ==
    \E i \in 1..(Len(md.logbook) - 1) :
        Begins(md.logbook[i]) < Ends(md.logbook[i + 1])

\* in an accepted logbook time never runs backwards: every entry begins no
\* earlier than the entry preceding it ends, and every interval entry stops
\* no earlier than it starts
AcceptedRunsForward ==
    outcome = "ok" =>
        /\ ~StartsBeforePrecedingStops(metadata)
        /\ \A i \in 1..Len(metadata.logbook) :
              Ends(metadata.logbook[i]) >= Begins(metadata.logbook[i])

\* a logbook whose time runs backwards is never accepted, and is rejected by
\* one of two errors
EarlyEntryIsRejected ==
    (outcome # None /\ StartsBeforePrecedingStops(metadata))
        => outcome \in {"ProjectChronologyError", "ValueError"}

\* C28: in every accepted logbook time never runs backwards, and an entry that
\* starts before the preceding entry stops raises ProjectChronologyError.
C28_EarlyEntryIsProjectChronologyError ==
    /\ AcceptedRunsForward
    /\ (outcome # None /\ StartsBeforePrecedingStops(metadata))
          => outcome = "ProjectChronologyError"

-----------------------------------------------------------------------------
(* Claims about min_depth (states.py lines 394-397) and satisfies (lines    *)
(* 183-199).  A valid model is compiled, its todo queue is built, and one   *)
(* bag of action counts is tested against the compiled constraint of every  *)
(* non-limb project state.                                                  *)

\* the bags tested: every count is drawn from 0..MaxCount
SmallBags == [ActionStates -> 0..MaxCount]

InitCallDepth ==
    /\ ForestLoaded
    /\ IdleValidate
    /\ args \in {[model |-> m, counts |-> b] :
                    m \in ValidModels, b \in SmallBags}
    /\ result = Pending

CallDepth ==
    /\ result = Pending
    /\ LET C == compileConstraints(args.model)
       IN  result' = [state_queue |-> initialStateQueue(C),
                      classifiers |-> Range(classifiers(C, args.counts))]
    /\ UNCHANGED <<mvars, vvars, args>>

SpecDepth == InitCallDepth /\ [][CallDepth]_vars

\* C29: no bag whose total action count is smaller than min_depth(p) satisfies
\* the compiled constraint of the non-limb project state p.
C29_MinDepthIsLowerBound ==
    result # Pending =>
        \A q \in result.state_queue :
            BagSize(args.counts) < q[1] => q[2] \notin result.classifiers

\* a bag of one or two actions is smaller than the min_depth of one state,
\* which it does not satisfy, and as large as the min_depth of another state,
\* which it satisfies
C29_Witness ==
    /\ result # Pending
    /\ BagSize(args.counts) >= 1
    /\ \E q \in result.state_queue :
          /\ BagSize(args.counts) < q[1]
          /\ q[2] \notin result.classifiers
    /\ \E q \in result.state_queue :
          /\ BagSize(args.counts) = q[1]
          /\ q[2] \in result.classifiers

-----------------------------------------------------------------------------
(* Claims about the run's UUID map and interval tree (console.py lines      *)
(* 143-144 and 159-162, projects.py lines 227-246)                          *)

\* a step of the run keeps every UUID registered, with its file, and every
\* interval of the tree
StoresGrow ==
    /\ \A u \in DOMAIN uuids : u \in DOMAIN uuids' /\ uuids'[u] = uuids[u]
    /\ intervals \subseteq intervals'

\* the turn of the loop just taken ended in checkProjectState (line 159)
RejectedByState == outcome = "ProjectStateError"

\* the turn of the loop just taken passed checkProjectState and met the UUID
\* of its project in the map (line 228)
RejectedByCollision ==
    /\ checked' = checked + 1
    /\ checkProjectState(model, label', metadata', plans') = None
    /\ metadata'.uuid \in DOMAIN uuids

\* the turn of the loop just taken ended at the slug test of lines 239-246
RejectedBySlug ==
    /\ outcome = "ProjectIdentityError"
    /\ metadata.slug # metadata.folder

\* the stores grow only; a project rejected by checkProjectState or at the
\* collision test leaves both as they were, the tree changes in no project
\* rejected before checkProjectChronology, and a project rejected at the slug
\* test has its UUID registered
StoresChangeInOwnCheck ==
    [][/\ StoresGrow
       /\ (RejectedByState' \/ RejectedByCollision)
             => (uuids' = uuids /\ intervals' = intervals)
       /\ RejectedBySlug' =>
             /\ intervals' = intervals
             /\ metadata'.uuid \in DOMAIN uuids'
             /\ uuids'[metadata'.uuid] = metadata'.fname]_vars

\* C30: the stores change only in the check that owns them and only by
\* insertion, and after a project is rejected for slug mismatch, with its UUID
\* registered, the run goes on to the later projects, where the same UUID is
\* treated as a collision.
C30_StoresAfterRejection ==
    [][/\ StoresGrow
       /\ (RejectedByState' \/ RejectedByCollision)
             => (uuids' = uuids /\ intervals' = intervals)
       /\ RejectedBySlug' =>
             /\ metadata'.uuid \in DOMAIN uuids'
             /\ checked' < nprojects => vpc' # "done"]_vars

====
